---- MODULE Spec2Model ----
(***************************************************************************)
(* Bulk post submission of the Reddit post manager.                        *)
(*                                                                         *)
(*   server side : POST /api/posts/all -> uploadAllPosts (utils/reddit.js) *)
(*   browser side: postAll / cancelPostAll (public/app.js)                 *)
(*   parser      : parseTxtFile (utils/parser.js)                          *)
(*   delay       : getRandomDelay (utils/reddit.js)                        *)
(*                                                                         *)
(* Strings are sequences of characters.  A few characters stand for the    *)
(* literal texts the parser looks for: "P" = USE ONLY PHOTO, "N" = NO NSFW,*)
(* "h" = http, "F" = flair: .                                              *)
(***************************************************************************)
EXTENDS Integers, Sequences, FiniteSets, TLC

VARIABLES
    now,             \* Date.now(), in milliseconds
    uploadProgress,  \* reddit.js: uploadProgress, run id -> progress record
    runs,            \* one entry per POST /api/posts/all request
    parsedPosts,     \* app.js: parsedPosts
    isPostingAll,    \* app.js: isPostingAll
    btnDisabled,     \* app.js: postAllBtn.disabled
    ui,              \* the locals of the running postAll call
    file,            \* the uploaded text file, a sequence of lines
    parsed,          \* whether parseTxtFile has run on the file
    dq,              \* one call of getRandomDelay: arguments, Math.random, result
    up,              \* the calls of uploadPost, one after another: locals, requests, result
    px,              \* reddit.js: agentCache, and the calls of getProxyAgents so far
    fl,              \* get-flairs.js: one run of getSubredditFlairs
    la               \* app.js: loadAccounts, its retries and the error log

vars == <<now, uploadProgress, runs, parsedPosts, isPostingAll, btnDisabled,
          ui, file, parsed, dq, up, px, fl, la>>

batchVars == <<now, uploadProgress, runs>>
uiVars == <<parsedPosts, isPostingAll, btnDisabled, ui>>
parseVars == <<file, parsed>>

\* ------------------------------------------------------------------ bounds
MaxPosts == 3      \* posts in one request / in the parsed list
MaxRuns == 2       \* POST /api/posts/all requests
MaxClock == 1      \* Date.now() advances at most this often
MaxDelay == 2      \* largest delay bound a request carries
MaxLines == 4      \* lines of an uploaded file
MaxUiRuns == 2     \* postAll loops started one after another
RandDen == 4       \* Math.random() takes the values 0/RandDen .. (RandDen-1)/RandDen
MaxArg == 3        \* getRandomDelay is called with arguments in -MaxArg .. MaxArg
MaxCalls == 2      \* calls of uploadPost one after another

\* --------------------------------------------------------- JavaScript values
\* null, a boolean or a string; `a && b` yields one of its operands.
JsNull == [kind |-> "null", b |-> FALSE, s |-> <<>>]
JsBool(x) == [kind |-> "bool", b |-> x, s |-> <<>>]
JsStr(str) == [kind |-> "str", b |-> FALSE, s |-> str]

Truthy(v) ==
    CASE v.kind = "null" -> FALSE
      [] v.kind = "bool" -> v.b
      [] OTHER -> Len(v.s) > 0

JsAnd(a, b) == IF Truthy(a) THEN b ELSE a

\* ------------------------------------------------------------------ strings
RECURSIVE TrimLeft(_)
TrimLeft(s) == IF s # <<>> /\ Head(s) = " " THEN TrimLeft(Tail(s)) ELSE s

RECURSIVE TrimRight(_)
TrimRight(s) ==
    IF s # <<>> /\ s[Len(s)] = " " THEN TrimRight(SubSeq(s, 1, Len(s) - 1)) ELSE s

\* String.prototype.trim
Trim(s) == TrimRight(TrimLeft(s))

\* String.prototype.startsWith
StartsWith(s, p) == Len(s) >= Len(p) /\ SubSeq(s, 1, Len(p)) = p

\* String.prototype.includes
Includes(s, p) == \E k \in 1..(Len(s) - Len(p) + 1) : SubSeq(s, k, k + Len(p) - 1) = p

\* the first index >= k holding "]", or 0
RECURSIVE CloseAt(_, _)
CloseAt(s, k) == IF k > Len(s) THEN 0 ELSE IF s[k] = "]" THEN k ELSE CloseAt(s, k + 1)

\* line.replace(/\[.*?\]/g, ''): every shortest bracket group is dropped
RECURSIVE StripBrackets(_)
StripBrackets(s) ==
    IF s = <<>> THEN <<>>
    ELSE IF Head(s) = "[" /\ CloseAt(s, 2) > 0
         THEN StripBrackets(SubSeq(s, CloseAt(s, 2) + 1, Len(s)))
         ELSE <<Head(s)>> \o StripBrackets(Tail(s))

\* ------------------------------------------------------------- parseTxtFile
NoCurrent ==
    [some |-> FALSE, subreddit |-> <<>>, title |-> JsNull, url |-> JsNull,
     flair_id |-> JsNull, flair_text |-> JsNull]

\* a record whose validity flag looks at the subreddit alone
PostRecordUnvalidated(id, cp) ==
    LET hasValidSubreddit == JsAnd(JsStr(cp.subreddit), JsBool(Len(Trim(cp.subreddit)) > 0))
        hasValidTitle == JsAnd(cp.title, JsBool(Len(Trim(cp.title.s)) > 0))
    IN [id |-> id,
        subreddit |-> Trim(cp.subreddit),
        title |-> IF Truthy(cp.title) THEN Trim(cp.title.s) ELSE <<>>,
        url |-> IF Truthy(cp.url) THEN JsStr(Trim(cp.url.s)) ELSE JsNull,
        flair_id |-> IF Truthy(cp.flair_id) THEN cp.flair_id ELSE JsNull,
        flair_text |-> IF Truthy(cp.flair_text) THEN cp.flair_text ELSE JsNull,
        hasUrl |-> Truthy(JsAnd(cp.url, JsBool(Len(Trim(cp.url.s)) > 0))),
        hasTitle |-> hasValidTitle,
        hasSubreddit |-> hasValidSubreddit,
        isValid |-> hasValidSubreddit]

\* the record pushed for currentPost
PostRecord(id, cp) ==
    LET hasValidSubreddit == JsAnd(JsStr(cp.subreddit), JsBool(Len(Trim(cp.subreddit)) > 0))
        hasValidTitle == JsAnd(cp.title, JsBool(Len(Trim(cp.title.s)) > 0))
    IN [id |-> id,
        subreddit |-> Trim(cp.subreddit),
        title |-> IF Truthy(cp.title) THEN Trim(cp.title.s) ELSE <<>>,
        url |-> IF Truthy(cp.url) THEN JsStr(Trim(cp.url.s)) ELSE JsNull,
        flair_id |-> IF Truthy(cp.flair_id) THEN cp.flair_id ELSE JsNull,
        flair_text |-> IF Truthy(cp.flair_text) THEN cp.flair_text ELSE JsNull,
        hasUrl |-> Truthy(JsAnd(cp.url, JsBool(Len(Trim(cp.url.s)) > 0))),
        hasTitle |-> hasValidTitle,
        hasSubreddit |-> hasValidSubreddit,
        isValid |-> JsAnd(hasValidSubreddit, hasValidTitle)]

\* "Validate and add post": only a post with a subreddit is kept
PushPost(posts, cp) ==
    IF Truthy(JsAnd(JsStr(cp.subreddit), JsBool(Len(Trim(cp.subreddit)) > 0)))
    THEN Append(posts, PostRecord(Len(posts) + 1, cp))
    ELSE posts

IsNote(line) ==
    StartsWith(line, <<"[">>)
    /\ (Includes(line, <<"P">>) \/ Includes(line, <<"[", "N", "]">>))

\* one iteration of the loop over the trimmed lines; st = [posts, cur]
ParseLine(st, line) ==
    IF line = <<>>
    THEN IF st.cur.some
         THEN [posts |-> PushPost(st.posts, st.cur), cur |-> NoCurrent]
         ELSE st
    ELSE IF StartsWith(line, <<"#">>) THEN st
    ELSE IF IsNote(line) THEN st
    ELSE IF ~st.cur.some
         THEN [st EXCEPT !.cur = [NoCurrent EXCEPT !.some = TRUE,
                                                   !.subreddit = Trim(StripBrackets(line))]]
    ELSE IF ~Truthy(st.cur.title)
         THEN [st EXCEPT !.cur.title = JsStr(Trim(line))]
    ELSE IF ~Truthy(st.cur.url) /\ StartsWith(line, <<"h">>)
         THEN [st EXCEPT !.cur.url = JsStr(line)]
    ELSE IF StartsWith(line, <<"F">>)
         THEN [st EXCEPT !.cur.flair_text = JsStr(Trim(Tail(line)))]
    ELSE IF StartsWith(line, <<"I">>)
         THEN [st EXCEPT !.cur.flair_id = JsStr(Trim(Tail(line)))]
    ELSE st

RECURSIVE ParseLines(_, _)
ParseLines(st, lines) ==
    IF lines = <<>> THEN st
    ELSE ParseLines(ParseLine(st, Trim(Head(lines))), Tail(lines))

parseTxtFile(lines) ==
    LET st == ParseLines([posts |-> <<>>, cur |-> NoCurrent], lines)
    IN IF st.cur.some THEN PushPost(st.posts, st.cur) ELSE st.posts

\* the lines an uploaded file is made of
LineSet ==
    { <<>>, <<" ">>, <<"#", "a">>, <<"[", "P", "]">>, <<"[", "a", "]">>,
      <<"a">>, <<"a", "[", "N", "]">>, <<"h", "a">>, <<"F", "a">>, <<"I", "a">> }

Files == UNION { [1..n -> LineSet] : n \in 0..MaxLines }


\* ----------------------------------------------------------- getRandomDelay
\* a JavaScript number in halves (h = 2 * value), or NaN (also standing for
\* undefined and for text that is no number)
JsHalf(h) == [nan |-> FALSE, h |-> h]
JsInt(n) == JsHalf(2 * n)
NotANumber == [nan |-> TRUE, h |-> 0]

\* parseInt of a number: the fraction is cut off towards zero, NaN stays NaN
ParseInt(v) ==
    IF v.nan THEN NotANumber
    ELSE IF v.h >= 0 THEN JsInt(v.h \div 2) ELSE JsInt(0 - ((0 - v.h) \div 2))

\* x || 0, for x a result of parseInt
OrZero(v) == IF v.nan \/ v.h = 0 THEN 0 ELSE v.h \div 2

\* Math.floor(Math.random() * span), Math.random() = rnd / RandDen
FloorRandom(rnd, span) == (rnd * span) \div RandDen

\* Math.round, the off-by-one a wrong rounding gives
RoundRandom(rnd, span) == (2 * rnd * span + RandDen) \div (2 * RandDen)

SampleWrongRounding(from, upTo, rnd) == RoundRandom(rnd, upTo - from + 1) + from

Sample(from, upTo, rnd) == FloorRandom(rnd, upTo - from + 1) + from

getRandomDelay(delayFrom, delayUpTo, rnd) ==
    LET from == OrZero(ParseInt(delayFrom))
        upTo == OrZero(ParseInt(delayUpTo))
    IN IF from >= upTo THEN from ELSE Sample(from, upTo, rnd)

Randoms == 0..(RandDen - 1)

\* ------------------------------------------------- server: uploadAllPosts
RunIds == 1..MaxRuns

\* the accountId a request body carries: 0 when it has none, else the id of the
\* account selected on the page
RequestAccounts == {0, 1}

\* the delay bounds a request body carries
DelayArgs == { <<NotANumber, NotANumber>>, <<JsInt(1), JsInt(MaxDelay)>> }

NoRun ==
    [pc |-> "none", status |-> 0, input |-> <<>>, validPosts |-> <<>>, uploadId |-> 0,
     i |-> 0, inflight |-> 0, started |-> <<>>, outcomes |-> <<>>, cb |-> <<>>,
     delayFrom |-> 0, delayUpTo |-> 0, delay |-> 0, accountId |-> 0]

\* posts.filter(p => p.isValid), taken in reverse
ValidPostsReversed(posts) ==
    [k \in 1..Len(SelectSeq(posts, LAMBDA p : Truthy(p.isValid))) |->
        SelectSeq(posts, LAMBDA p : Truthy(p.isValid))
            [Len(SelectSeq(posts, LAMBDA p : Truthy(p.isValid))) + 1 - k]]

\* posts.filter(p => p.isValid)
ValidPosts(posts) == SelectSeq(posts, LAMBDA p : Truthy(p.isValid))

\* the route's guard left out
NothingToUploadUnchecked(validPosts) == FALSE

\* validPosts.length === 0
NothingToUpload(validPosts) == Len(validPosts) = 0

\* the record a run starts with
NewProgress(validPosts) ==
    [total |-> Len(validPosts), current |-> 0, completed |-> <<>>, failed |-> <<>>]

\* a failure that is not recorded
OnFailureDropped(rec, post) == rec

\* catch: uploadProgress[uploadId].failed.push({post, error})
OnFailure(rec, post) ==
    [rec EXCEPT !.failed = Append(@, [post |-> post, error |-> "error"])]

\* a current field that counts the completed posts
OnSuccessCounting(rec, post, i) ==
    [rec EXCEPT !.current = Len(rec.completed) + 1,
                !.completed = Append(@, [post |-> post, result |-> "ok"])]

\* uploadProgress[uploadId].current = i + 1; completed.push({post, result})
OnSuccess(rec, post, i) ==
    [rec EXCEPT !.current = i + 1,
                !.completed = Append(@, [post |-> post, result |-> "ok"])]

\* a loop that goes back once to a post whose upload has just failed
EnterIterationRetrying(run, i, waited) ==
    IF /\ i >= 1
       /\ run.outcomes # <<>>
       /\ run.outcomes[Len(run.outcomes)] = "error"
       /\ Cardinality({ k \in 1..Len(run.started) :
                           run.started[k].post = run.validPosts[i].id }) = 1
    THEN [run EXCEPT !.pc = "uploading", !.i = i - 1, !.inflight = @ + 1,
                     !.started = Append(@, [post |-> run.validPosts[i].id,
                                            waited |-> waited])]
    ELSE IF i < Len(run.validPosts)
    THEN [run EXCEPT !.pc = "uploading", !.i = i, !.inflight = @ + 1,
                     !.started = Append(@, [post |-> run.validPosts[i + 1].id,
                                            waited |-> waited])]
    ELSE [run EXCEPT !.pc = "done", !.i = i]

\* the loop of uploadAllPosts reaches index i (0-based): the call of uploadPost
\* for validPosts[i], or the return of the progress record; waited tells whether
\* the delay of the previous iteration was waited
EnterIteration(run, i, waited) ==
    IF i < Len(run.validPosts)
    THEN [run EXCEPT !.pc = "uploading", !.i = i, !.inflight = @ + 1,
                     !.started = Append(@, [post |-> run.validPosts[i + 1].id,
                                            waited |-> waited])]
    ELSE [run EXCEPT !.pc = "done", !.i = i]

\* POST /api/posts/all, up to the first await inside uploadAllPosts
PostAllRoute(r, posts, isArray, accountId, delays) ==
    /\ runs[r].pc = "none"
    /\ \A q \in 1..(r - 1) : runs[q].pc # "none"
    /\ IF ~isArray \/ accountId = 0
       THEN /\ runs' = [runs EXCEPT ![r] = [@ EXCEPT !.pc = "rejected", !.status = 400]]
            /\ UNCHANGED uploadProgress
       ELSE IF NothingToUpload(ValidPosts(posts))
       THEN /\ runs' = [runs EXCEPT ![r] = [@ EXCEPT !.pc = "rejected", !.status = 400,
                                                     !.input = posts]]
            /\ UNCHANGED uploadProgress
       ELSE LET validPosts == ValidPosts(posts)
                uploadId == now
                run == [NoRun EXCEPT !.status = 200, !.input = posts,
                                     !.validPosts = validPosts, !.uploadId = uploadId,
                                     !.accountId = accountId,
                                     !.delayFrom = OrZero(delays[1]),
                                     !.delayUpTo = OrZero(delays[2])]
            IN /\ uploadProgress' = (uploadId :> NewProgress(validPosts)) @@ uploadProgress
               /\ runs' = [runs EXCEPT ![r] = EnterIteration(run, 0, FALSE)]
    /\ UNCHANGED <<now, uiVars, parseVars, dq, up, px, fl, la>>

\* uploadPost resolves: the rest of the try block up to the next await
UploadSucceeds(r, rnd) ==
    /\ runs[r].pc = "uploading"
    /\ LET run == runs[r]
           post == run.validPosts[run.i + 1]
           settled == [run EXCEPT !.inflight = @ - 1,
                                  !.outcomes = Append(@, "ok"),
                                  !.cb = Append(@, [current |-> run.i + 1,
                                                    total |-> Len(run.validPosts),
                                                    post |-> post.id])]
       IN /\ uploadProgress' =
                 [uploadProgress EXCEPT ![run.uploadId] = OnSuccess(@, post, run.i)]
          /\ IF run.i < Len(run.validPosts) - 1
             THEN runs' = [runs EXCEPT ![r] =
                      [settled EXCEPT !.pc = "delaying",
                                      !.delay = getRandomDelay(JsInt(run.delayFrom),
                                                               JsInt(run.delayUpTo), rnd)]]
             ELSE runs' = [runs EXCEPT ![r] = EnterIteration(settled, run.i + 1, FALSE)]
    /\ UNCHANGED <<now, uiVars, parseVars, dq, up, px, fl, la>>

\* uploadPost rejects: the catch block, then the next iteration
UploadFails(r) ==
    /\ runs[r].pc = "uploading"
    /\ LET run == runs[r]
           post == run.validPosts[run.i + 1]
           settled == [run EXCEPT !.inflight = @ - 1, !.outcomes = Append(@, "error")]
       IN /\ uploadProgress' =
                 [uploadProgress EXCEPT ![run.uploadId] = OnFailure(@, post)]
          /\ runs' = [runs EXCEPT ![r] = EnterIteration(settled, run.i + 1, FALSE)]
    /\ UNCHANGED <<now, uiVars, parseVars, dq, up, px, fl, la>>

\* the timer of the delay fires: the next iteration
DelayElapsed(r) ==
    /\ runs[r].pc = "delaying"
    /\ runs' = [runs EXCEPT ![r] = EnterIteration([@ EXCEPT !.delay = 0], runs[r].i + 1, TRUE)]
    /\ UNCHANGED <<now, uploadProgress, uiVars, parseVars, dq, up, px, fl, la>>

\* a millisecond passes
Tick ==
    /\ now < MaxClock
    /\ now' = now + 1
    /\ UNCHANGED <<uploadProgress, runs, uiVars, parseVars, dq, up, px, fl, la>>

\* ------------------------------------------------------- browser: postAll
\* the values of the two delay inputs of the page
UiDelayArgs ==
    { <<NotANumber, NotANumber>>, <<JsInt(1), JsInt(MaxDelay)>>,
      <<JsInt(MaxDelay), JsInt(1)>>, <<JsInt(0 - 1), JsInt(1)>> }

Outcomes == {"ok", "notok", "neterr"}

NoLoop ==
    [pc |-> "idle", validPosts |-> <<>>, i |-> 0, completed |-> 0, failed |-> 0,
     total |-> 0, delayFrom |-> 0, delayUpTo |-> 0, countdown |-> 0,
     inflight |-> 0, started |-> <<>>, outcomes |-> <<>>, nRuns |-> 0]

\* the loop's test of the flag, left out
KeepsPostingUnchecked(flag) == TRUE

\* if (!isPostingAll) break;
KeepsPosting(flag) == flag

\* a countdown that runs to its end whatever the flag
CountdownGoesOnUnchecked(countdown, flag) == countdown > 0

\* countdown > 0 && isPostingAll
CountdownGoesOn(countdown, flag) == countdown > 0 /\ flag

\* the top of the for loop at index i (0-based): the fetch of validPosts[i] starts,
\* or the loop is left (final update and finally block)
LoopTop(u, i, flag) ==
    IF i < Len(u.validPosts) /\ KeepsPosting(flag)
    THEN [u EXCEPT !.pc = "fetching", !.i = i, !.inflight = @ + 1,
                   !.started = Append(@, u.validPosts[i + 1].id)]
    ELSE [u EXCEPT !.pc = "idle", !.i = i, !.countdown = 0]

\* the flag and the button after a step of the loop
LoopLeaves(u) ==
    /\ isPostingAll' = IF u.pc = "idle" THEN FALSE ELSE isPostingAll
    /\ btnDisabled' = (u.pc # "idle")

\* completed++ / failed++ for one response
Tally(u, outcome) ==
    CASE outcome = "ok" -> [u EXCEPT !.completed = @ + 1]
      [] outcome = "notok" -> [u EXCEPT !.failed = @ + 2]
      [] OTHER -> [u EXCEPT !.failed = @ + 1]

\* the upload of a file: /api/posts/upload runs parseTxtFile and removes the
\* file, the page keeps data.posts
ParseUpload ==
    /\ ~parsed
    /\ parsedPosts' = parseTxtFile(file)
    /\ file' = <<>>
    /\ parsed' = TRUE
    /\ UNCHANGED <<batchVars, isPostingAll, btnDisabled, ui, dq, up, px, fl, la>>

\* a button that passes clicks on while it is disabled
ClickReachesDisabled(disabled) == TRUE

\* postAllBtn.disabled = true ... postAllBtn.disabled = false: a disabled button
\* dispatches no click, so its listener is not called
ClickReaches(disabled) == ~disabled

\* a click on "Post All": postAll up to its first await
PostAllClick(hasAccount, delays, confirmed) ==
    /\ ClickReaches(btnDisabled)
    /\ ui.nRuns < MaxUiRuns
    /\ LET delayFrom == OrZero(ParseInt(delays[1]))
           delayUpTo == OrZero(ParseInt(delays[2]))
           validPosts == ValidPosts(parsedPosts)
       IN IF \/ ~hasAccount \/ Len(parsedPosts) = 0
             \/ isPostingAll
             \/ delayFrom < 0 \/ delayUpTo < 0
             \/ delayFrom > delayUpTo
             \/ Len(validPosts) = 0
             \/ ~confirmed
          THEN UNCHANGED <<isPostingAll, btnDisabled, ui>>
          ELSE LET u == LoopTop([NoLoop EXCEPT !.validPosts = validPosts,
                                               !.total = Len(validPosts),
                                               !.delayFrom = delayFrom,
                                               !.delayUpTo = delayUpTo,
                                               !.nRuns = ui.nRuns + 1], 0, TRUE)
               IN /\ ui' = u
                  /\ isPostingAll' = (u.pc # "idle")
                  /\ btnDisabled' = (u.pc # "idle")
    /\ UNCHANGED <<batchVars, parsedPosts, parseVars, dq, up, px, fl, la>>

\* the response of /api/posts/single arrives (or the fetch fails): the tally,
\* then the delay or the next iteration
FetchSettles(outcome, rnd) ==
    /\ ui.pc = "fetching"
    /\ LET u == [Tally(ui, outcome) EXCEPT !.outcomes = Append(@, outcome),
                                           !.inflight = @ - 1]
           delay == IF u.delayFrom + u.delayUpTo > 0
                    THEN Sample(u.delayFrom, u.delayUpTo, rnd)
                    ELSE 0
           next == IF /\ u.i < Len(u.validPosts) - 1
                      /\ isPostingAll
                      /\ delay > 0
                      /\ CountdownGoesOn(delay, isPostingAll)
                   THEN [u EXCEPT !.pc = "ticking", !.countdown = delay]
                   ELSE LoopTop(u, u.i + 1, isPostingAll)
       IN /\ ui' = next
          /\ LoopLeaves(next)
    /\ UNCHANGED <<batchVars, parsedPosts, parseVars, dq, up, px, fl, la>>

\* one second of the countdown has passed
TickElapsed ==
    /\ ui.pc = "ticking"
    /\ LET next == IF CountdownGoesOn(ui.countdown - 1, isPostingAll)
                   THEN [ui EXCEPT !.countdown = @ - 1]
                   ELSE LoopTop(ui, ui.i + 1, isPostingAll)
       IN /\ ui' = next
          /\ LoopLeaves(next)
    /\ UNCHANGED <<batchVars, parsedPosts, parseVars, dq, up, px, fl, la>>

\* a click on "Cancel": cancelPostAll
CancelPostAll(confirmed) ==
    /\ isPostingAll
    /\ isPostingAll' = IF confirmed THEN FALSE ELSE isPostingAll
    /\ UNCHANGED <<batchVars, parsedPosts, btnDisabled, ui, parseVars, dq, up, px, fl, la>>

\* ------------------------------------------------ one call of getRandomDelay
\* the arguments: integers, halves between them, and NaN
DelayInputs == { JsHalf(h) : h \in (0 - 2 * MaxArg)..(2 * MaxArg) } \cup { NotANumber }

NoCall == [stage |-> "none", delayFrom |-> NotANumber, delayUpTo |-> NotANumber,
           rnd |-> 0, result |-> 0]

CallGetRandomDelay(rnd) ==
    /\ dq.stage = "args"
    /\ dq' = [dq EXCEPT !.stage = "returned", !.rnd = rnd,
                        !.result = getRandomDelay(dq.delayFrom, dq.delayUpTo, rnd)]
    /\ UNCHANGED <<batchVars, uiVars, parseVars, up, px, fl, la>>

\* ------------------------------------------------- server: one uploadPost
\* Texts are TLA+ strings; "" stands for a value that is null, undefined or the
\* empty string where the code only tests truthiness.  A text put together from
\* parts is the sequence of its parts.

\* the texts of the model that contain the word proxy
ProxyTexts == {"proxy", "proxy-list.txt", "Bad proxy header"}

\* text.includes('proxy')
IncludesProxy(text) == text \in ProxyTexts

\* a message: a template, the text put into it, and the number put into it
Msg(tpl, arg, n) == [tpl |-> tpl, arg |-> arg, n |-> n]

\* error.message?.includes('proxy')
MsgIncludesProxy(m) == IncludesProxy(m.tpl) \/ IncludesProxy(m.arg)

\* error.response.data of an axios error; has = FALSE when there is no response
\* or no body
NoData == [has |-> FALSE, errors |-> <<>>, message |-> "", text |-> ""]

\* one instruction of a jquery array: [_, _, op, [arg]] with len entries; the
\* argument is a text with what the code looks for in it: reddit.com,
\* /comments/, the id matched by /\/comments\/([^\/]+)\//, and whether it reads
\* as an error message
JqItem(len, op, args) == [len |-> len, op |-> op, args |-> args]

JqArg(text, redditCom, comments, id, errorText) ==
    [text |-> text, redditCom |-> redditCom, comments |-> comments, id |-> id,
     errorText |-> errorText]

\* json.data of a response
NoPostData == [present |-> FALSE, id |-> "", name |-> "", permalink |-> ""]

\* a response body of the submit endpoint
\*   kind     : "none" (no body), "null", "text" (not an object), "object"
\*   json     : "absent" (or falsy), "scalar" (truthy, not an object), "object"
\*   errors   : json.errors, pairs [code, message]
\*   data     : json.data
\*   ratelimit: response.data.ratelimit in half seconds, 0 when absent
\*   jquery   : "absent", "scalar" (truthy, not an array), "array"
\*   items    : the entries of the jquery array
\*   success  : "absent", "true", "false", "other"
Body(kind, json, errors, data, ratelimit, jquery, items, success) ==
    [kind |-> kind, json |-> json, errors |-> errors, data |-> data,
     ratelimit |-> ratelimit, jquery |-> jquery, items |-> items, success |-> success]

NoBody == Body("none", "absent", <<>>, NoPostData, 0, "absent", <<>>, "absent")

\* an Error object: name, message, code (transport errors), the status and the
\* body of error.response (HTTP errors), and the redditResponse property
Err(name, message) ==
    [name |-> name, message |-> message, code |-> "", status |-> 0, data |-> NoData,
     redditResponse |-> NoBody]

NoErr == Err("", Msg("", "", 0))

\* new Error(message)
NewError(message) == Err("Error", message)

\* evaluating account.proxy_host in a catch block: account is declared with
\* const inside the try block and is not in scope
AccountNotInScope == Err("ReferenceError", Msg("account is not defined", "", 0))

\* the result of uploadPost: the returned object, or the error thrown
NoResult ==
    [state |-> "none", success |-> FALSE, postId |-> "", name |-> <<>>, url |-> <<>>,
     error |-> NoErr]

Returned(postId, name, url) ==
    [state |-> "returned", success |-> TRUE, postId |-> postId, name |-> name,
     url |-> url, error |-> NoErr]

Thrown(error) == [NoResult EXCEPT !.state = "thrown", !.error = error]

\* ---- accounts
\* a row of the accounts table as getAccountById returns it (found = FALSE:
\* no row, undefined); proxy = proxy_host and proxy_port are set
Account(found, client_id, client_secret, refresh_token, proxy) ==
    [found |-> found, client_id |-> client_id, client_secret |-> client_secret,
     refresh_token |-> refresh_token, proxy |-> proxy]

Accounts ==
    { Account(FALSE, "", "", "", FALSE),
      Account(TRUE, "cid", "sec", "rt", FALSE),
      Account(TRUE, "cid", "sec", "rt", TRUE),
      Account(TRUE, "", "sec", "rt", FALSE),
      Account(TRUE, "cid", "", "rt", TRUE),
      Account(TRUE, "cid", "sec", "", FALSE),
      Account(TRUE, "cid", "sec", "YOUR_REFRESH_TOKEN", TRUE) }

\* the credential checks without the test for the placeholder
CheckCredentialsNoPlaceholder(account) ==
    IF ~account.found THEN NewError(Msg("Account not found", "", 0))
    ELSE IF account.client_id = "" \/ account.client_secret = ""
    THEN NewError(Msg("Missing client_id or client_secret in account configuration", "", 0))
    ELSE IF account.refresh_token = ""
    THEN NewError(Msg("Invalid or missing refresh_token", "", 0))
    ELSE NoErr

\* getAccessToken before its request: the error thrown, or NoErr
CheckCredentials(account) ==
    IF ~account.found THEN NewError(Msg("Account not found", "", 0))
    ELSE IF account.client_id = "" \/ account.client_secret = ""
    THEN NewError(Msg("Missing client_id or client_secret in account configuration", "", 0))
    ELSE IF account.refresh_token = "" \/ account.refresh_token = "YOUR_REFRESH_TOKEN"
    THEN NewError(Msg("Invalid or missing refresh_token", "", 0))
    ELSE NoErr

\* error.code === 'ECONNREFUSED' || error.code === 'ETIMEDOUT' ||
\* error.message?.includes('proxy')
IsProxyError(error) ==
    error.code = "ECONNREFUSED" \/ error.code = "ETIMEDOUT" \/ MsgIncludesProxy(error.message)

\* the catch block of getAccessToken: the error it throws for the error caught
TokenCatch(error) ==
    IF IsProxyError(error) THEN AccountNotInScope
    ELSE IF error.status = 401
    THEN NewError(Msg("Unauthorized: Invalid refresh_token, client_id, or client_secret", "", 0))
    ELSE IF error.data.has
    THEN NewError(Msg("Failed to get access token: %s", error.data.text, 0))
    ELSE IF error.message.tpl # "" THEN NewError(error.message)
    ELSE NewError(Msg("Failed to get access token", "", 0))

\* the catch block of uploadPost: the error it throws for the error caught
UploadCatch(error) ==
    IF IsProxyError(error) THEN AccountNotInScope
    ELSE IF error.data.has /\ error.data.errors # <<>>
    THEN NewError(Msg(IF error.data.errors[1].message # ""
                      THEN error.data.errors[1].message
                      ELSE error.data.errors[1].code, "", 0))
    ELSE IF error.data.has /\ error.data.message # ""
    THEN NewError(Msg(error.data.message, "", 0))
    ELSE IF error.message.tpl # "" THEN NewError(error.message)
    ELSE NewError(Msg("Failed to upload post", "", 0))

\* the access token a token exchange answers with: the exchanges are numbered,
\* each issues its own token
AccessTokenCached(exchange) == 1

AccessToken(exchange) == exchange

\* ---- posts
\* post.url: null, or a text with what new URL(text) makes of it (parses =
\* FALSE: new URL throws)
Url(kind, text, parses, protocol, hostname) ==
    [kind |-> kind, text |-> text, parses |-> parses, protocol |-> protocol,
     hostname |-> hostname]

NoUrl == Url("null", "", FALSE, "", "")

Urls ==
    { NoUrl,
      Url("str", "", FALSE, "", ""),
      Url("str", "https://example.com/x", TRUE, "https:", "example.com"),
      Url("str", "not-a-url", FALSE, "", ""),
      Url("str", "mailto:x", TRUE, "mailto:", ""),
      Url("str", "proxy-list.txt", FALSE, "", "") }

\* if (post.url), post.url ? .. : ..
HasUrl(url) == url.kind = "str" /\ url.text # ""

\* the URL check of uploadPost: the error thrown, or NoErr
ValidateUrl(url) ==
    IF ~HasUrl(url) THEN NoErr
    ELSE IF ~url.parses \/ url.protocol = "" \/ url.hostname = ""
    THEN NewError(Msg("Invalid URL: %s. Please provide a valid URL", url.text, 0))
    ELSE NoErr

UploadPosts ==
    { [subreddit |-> s, title |-> "t", url |-> u, flair_id |-> f[1], flair_text |-> f[2]] :
        s \in {"pics", "proxy"}, u \in Urls,
        f \in { <<"", "">>, <<"fid", "">>, <<"", "ftext">>, <<"fid", "ftext">> } }

NoPost == [subreddit |-> "", title |-> "", url |-> NoUrl, flair_id |-> "", flair_text |-> ""]

\* postData, the form sent to /api/submit; has.. tell which keys it holds
NoPayload ==
    [sr |-> "", title |-> "", kind |-> "", hasUrl |-> FALSE, url |-> "",
     hasFlairId |-> FALSE, flair_id |-> "", hasFlairText |-> FALSE, flair_text |-> ""]

\* a form that takes both flair selectors
PostDataBothFlairs(post) ==
    [sr |-> post.subreddit, title |-> post.title,
     kind |-> IF HasUrl(post.url) THEN "link" ELSE "self",
     hasUrl |-> HasUrl(post.url),
     url |-> IF HasUrl(post.url) THEN post.url.text ELSE "",
     hasFlairId |-> post.flair_id # "",
     flair_id |-> post.flair_id,
     hasFlairText |-> post.flair_text # "",
     flair_text |-> post.flair_text]

PostData(post) ==
    [sr |-> post.subreddit, title |-> post.title,
     kind |-> IF HasUrl(post.url) THEN "link" ELSE "self",
     hasUrl |-> HasUrl(post.url),
     url |-> IF HasUrl(post.url) THEN post.url.text ELSE "",
     hasFlairId |-> post.flair_id # "",
     flair_id |-> post.flair_id,
     hasFlairText |-> post.flair_text # "" /\ post.flair_id = "",
     flair_text |-> IF post.flair_text # "" /\ post.flair_id = ""
                    THEN post.flair_text ELSE ""]

\* ---- the response of /api/submit
\* texts that contain url, and texts that contain domain, in lower case
UrlTexts == {"BAD_URL", "that url is not valid"}

DomainTexts == {"that domain is banned"}

ErrorPair(code, message) == [code |-> code, message |-> message]

\* Math.ceil of a number given in halves
Ceil(h) == (h + 1) \div 2

\* the message for json.errors[0]
DetailedMessage(pair, post) ==
    LET errorMessage == IF pair.message # "" THEN pair.message ELSE pair.code
    IN CASE pair.code = "SUBREDDIT_NOTALLOWED" ->
               Msg("You are not allowed to post in r/%s", post.subreddit, 0)
         [] pair.code = "SUBREDDIT_NOEXIST" ->
               Msg("Subreddit r/%s does not exist.", post.subreddit, 0)
         [] pair.code = "RATELIMIT" ->
               Msg("Rate limit exceeded. Please wait before posting again.", "", 0)
         [] pair.code = "ALREADY_SUB" ->
               Msg("This link has already been submitted to r/%s.", post.subreddit, 0)
         [] OTHER ->
               IF errorMessage \in UrlTexts
               THEN Msg("Invalid URL: %s. Please check that the URL is valid and accessible.",
                        IF post.url.kind = "null" THEN "null" ELSE post.url.text, 0)
               ELSE IF errorMessage \in DomainTexts
               THEN Msg("Domain not allowed: The URL domain may not be allowed in this subreddit.",
                        "", 0)
               ELSE Msg(errorMessage, "", 0)

\* a truthy jquery property taken for an array
HasJqueryArrayLoose(body) == body.jquery # "absent"

\* response.data.jquery && Array.isArray(response.data.jquery)
HasJqueryArray(body) == body.jquery = "array"

\* item[2] === 'call' with a first argument that includes reddit.com and
\* /comments/
IsRedirect(item) ==
    /\ item.len >= 4
    /\ item.op = "call"
    /\ item.args # <<>>
    /\ item.args[1].redditCom
    /\ item.args[1].comments

\* the first redirect of the jquery array: its argument as a one-entry list,
\* or the empty list (redirectUrl stays null)
RECURSIVE FindRedirect(_)
FindRedirect(items) ==
    IF items = <<>> THEN <<>>
    ELSE IF IsRedirect(Head(items)) THEN <<Head(items).args[1]>>
    ELSE FindRedirect(Tail(items))

\* item[2] === 'text' with a first argument that reads as an error message
IsErrorText(item) ==
    item.len >= 4 /\ item.op = "text" /\ item.args # <<>> /\ item.args[1].errorText

RECURSIVE FindErrorText(_)
FindErrorText(items) ==
    IF items = <<>> THEN <<>>
    ELSE IF IsErrorText(Head(items)) THEN <<Head(items).args[1]>>
    ELSE FindErrorText(Tail(items))

\* a post name without its type prefix
PostNameBare(postId) == <<postId>>

\* `t3_${postId}`
PostName(postId) == <<"t3_", postId>>

\* the return for a jquery response with success === true
LegacySuccess(body) ==
    LET redirect == FindRedirect(body.items)
    IN IF redirect = <<>> THEN Returned("", <<>>, <<"N/A">>)
       ELSE IF redirect[1].id = "" THEN Returned("", <<>>, <<redirect[1].text>>)
       ELSE Returned(redirect[1].id, PostName(redirect[1].id), <<redirect[1].text>>)

\* an error with the response attached: error.redditResponse = response.data
WithResponse(message, body) == [NewError(message) EXCEPT !.redditResponse = body]

\* the error for a jquery response with success === false
LegacyFailure(body) ==
    LET text == FindErrorText(body.items)
    IN WithResponse(IF text = <<>>
                    THEN Msg("Reddit API returned an error. The subreddit may have restrictions or the post may be invalid.", "", 0)
                    ELSE Msg(text[1].text, "", 0), body)

\* uploadPost after the response of /api/submit has arrived, inside the try
\* block: what it returns or throws there
Normalize(body, post) ==
    IF body.kind = "null"
    THEN Thrown(Err("TypeError", Msg("Cannot read properties of null (reading 'json')", "", 0)))
    ELSE IF body.json = "absent"
    THEN IF HasJqueryArray(body) /\ body.success = "true" THEN LegacySuccess(body)
         ELSE IF HasJqueryArray(body) /\ body.success = "false"
         THEN Thrown(LegacyFailure(body))
         ELSE Thrown(WithResponse(
                  Msg("Unexpected response format from Reddit API. Check console for details.",
                      "", 0), body))
    ELSE IF body.errors # <<>>
    THEN Thrown(NewError(DetailedMessage(body.errors[1], post)))
    ELSE IF ~body.data.present
    THEN IF body.ratelimit > 0
         THEN Thrown(WithResponse(Msg("Rate limit: You can post again in %s seconds.", "",
                                      Ceil(body.ratelimit)), body))
         ELSE Thrown(WithResponse(
                  Msg("Failed to submit post - no data returned. The subreddit may have restrictions (karma, account age, verification).",
                      "", 0), body))
    ELSE Returned(body.data.id, <<body.data.name>>,
                  <<"https://reddit.com", body.data.permalink>>)

\* ---- what the provider may answer
GoodData == [present |-> TRUE, id |-> "abc", name |-> "t3_abc",
             permalink |-> "/r/x/comments/abc/y/"]

StructuredBody(errors, data, ratelimit) ==
    Body("object", "object", errors, data, ratelimit, "absent", <<>>, "absent")

LegacyBody(jquery, items, success) ==
    Body("object", "absent", <<>>, NoPostData, 0, jquery, items, success)

AttrRedirect == JqItem(4, "attr", <<JqArg("redirect", FALSE, FALSE, "", FALSE)>>)

CallAbsolute ==
    JqItem(4, "call", <<JqArg("https://www.reddit.com/r/x/comments/xyz/t/",
                              TRUE, TRUE, "xyz", FALSE)>>)

CallRelative ==
    JqItem(4, "call", <<JqArg("/r/x/comments/xyz/t/", FALSE, TRUE, "xyz", FALSE)>>)

CallNoId ==
    JqItem(4, "call", <<JqArg("https://www.reddit.com/comments/", TRUE, TRUE, "", FALSE)>>)

CallEmpty == JqItem(4, "call", <<>>)

TextError ==
    JqItem(4, "text", <<JqArg("that subreddit requires a flair, error", FALSE, FALSE, "", TRUE)>>)

TextShort == JqItem(4, "text", <<JqArg("ok", FALSE, FALSE, "", FALSE)>>)

Bodies ==
    { Body("null", "absent", <<>>, NoPostData, 0, "absent", <<>>, "absent"),
      Body("text", "absent", <<>>, NoPostData, 0, "absent", <<>>, "absent"),
      Body("object", "absent", <<>>, NoPostData, 0, "absent", <<>>, "absent"),
      Body("object", "scalar", <<>>, NoPostData, 0, "absent", <<>>, "absent"),
      Body("object", "scalar", <<>>, NoPostData, 0, "array", <<AttrRedirect, CallAbsolute>>, "true"),
      StructuredBody(<<>>, GoodData, 0),
      StructuredBody(<<>>, NoPostData, 0),
      StructuredBody(<<>>, NoPostData, 7),
      StructuredBody(<<>>, GoodData, 7),
      StructuredBody(<<ErrorPair("SUBREDDIT_NOEXIST", "that subreddit doesn't exist")>>, NoPostData, 0),
      StructuredBody(<<ErrorPair("SUBREDDIT_NOTALLOWED", "")>>, GoodData, 0),
      StructuredBody(<<ErrorPair("BAD_URL", ""), ErrorPair("RATELIMIT", "wait")>>, NoPostData, 7),
      StructuredBody(<<ErrorPair("BAD_DOMAIN", "that domain is banned")>>, NoPostData, 0),
      StructuredBody(<<ErrorPair("SUBMIT_VALIDATION", "raw message")>>, NoPostData, 0),
      StructuredBody(<<ErrorPair("NO_TEXT", "")>>, NoPostData, 0),
      StructuredBody(<<ErrorPair("BAD_GATEWAY", "Bad proxy header")>>, NoPostData, 0),
      LegacyBody("array", <<AttrRedirect, CallAbsolute>>, "true"),
      LegacyBody("array", <<AttrRedirect, CallRelative>>, "true"),
      LegacyBody("array", <<CallNoId, CallAbsolute>>, "true"),
      LegacyBody("array", <<CallEmpty, TextShort>>, "true"),
      LegacyBody("array", <<TextShort, TextError>>, "false"),
      LegacyBody("array", <<TextShort>>, "false"),
      LegacyBody("array", <<AttrRedirect, CallAbsolute>>, "absent"),
      LegacyBody("array", <<AttrRedirect, CallAbsolute>>, "other"),
      LegacyBody("scalar", <<>>, "true"),
      LegacyBody("absent", <<>>, "true") }

\* ---- what axios.post may end with
\* a rejected request: a transport error (code) or an HTTP error (status, data)
AxiosError(message, code, status, data) ==
    [Err("AxiosError", Msg(message, "", 0)) EXCEPT !.code = code, !.status = status,
                                                   !.data = data]

Answer(ok, body, error) == [ok |-> ok, body |-> body, error |-> error]

TransportErrors ==
    { AxiosError("connect ECONNREFUSED", "ECONNREFUSED", 0, NoData),
      AxiosError("connect ETIMEDOUT", "ETIMEDOUT", 0, NoData),
      AxiosError("getaddrinfo ENOTFOUND", "ENOTFOUND", 0, NoData),
      AxiosError("Bad proxy header", "ERR_BAD_RESPONSE", 0, NoData) }

TokenAnswers ==
    { Answer(TRUE, NoBody, NoErr) }
    \cup { Answer(FALSE, NoBody, e) : e \in TransportErrors }
    \cup { Answer(FALSE, NoBody, e) : e \in
             { AxiosError("Request failed with status code 401", "ERR_BAD_REQUEST", 401,
                          [NoData EXCEPT !.has = TRUE, !.text = "unauthorized"]),
               AxiosError("Request failed with status code 400", "ERR_BAD_REQUEST", 400,
                          [NoData EXCEPT !.has = TRUE, !.text = "invalid_grant"]),
               AxiosError("Request failed with status code 407", "ERR_BAD_REQUEST", 407,
                          [NoData EXCEPT !.has = TRUE, !.text = "Bad proxy header"]),
               AxiosError("Request failed with status code 502", "ERR_BAD_RESPONSE", 502,
                          NoData) } }

SubmitAnswers ==
    { Answer(TRUE, b, NoErr) : b \in Bodies }
    \cup { Answer(FALSE, NoBody, e) : e \in TransportErrors }
    \cup { Answer(FALSE, NoBody, e) : e \in
             { AxiosError("Request failed with status code 403", "ERR_BAD_REQUEST", 403,
                          [NoData EXCEPT !.has = TRUE,
                                         !.errors = <<ErrorPair("USER_REQUIRED", "Please log in")>>]),
               AxiosError("Request failed with status code 500", "ERR_BAD_RESPONSE", 500,
                          [NoData EXCEPT !.has = TRUE, !.message = "Internal Server Error"]),
               AxiosError("Request failed with status code 502", "ERR_BAD_RESPONSE", 502,
                          NoData) } }

\* ---- the calls of uploadPost, one after another
\*   pc         : "idle", "token" (awaiting the token exchange), "submit"
\*                (awaiting /api/submit), "returned"
\*   calls      : calls of uploadPost so far, this one included
\*   exchanges  : requests to the token endpoint so far
\*   tokenReqs, submitReqs : requests this call has sent
\*   accessToken: the token this call got, 0 before
\*   bearer     : the token in the Authorization header of the submit request
\*   failedAt   : where the call failed: "credentials", "token", "url", "submit",
\*                "response", or ""
\*   caught     : the error the catch block of uploadPost (or of getAccessToken)
\*                caught
NoUpload ==
    [pc |-> "idle", calls |-> 0, exchanges |-> 0, post |-> NoPost,
     account |-> Account(FALSE, "", "", "", FALSE), tokenReqs |-> 0, submitReqs |-> 0,
     accessToken |-> 0, bearer |-> 0, payload |-> NoPayload, failedAt |-> "",
     caught |-> NoErr, body |-> NoBody, result |-> NoResult]

\* the call ends in the catch block of uploadPost
Fails(u, failedAt, caught, thrown) ==
    [u EXCEPT !.pc = "returned", !.failedAt = failedAt, !.caught = caught,
              !.result = Thrown(thrown)]

\* uploadPost(post, accountId) up to its first request: getAccountById, then
\* getAccessToken up to axios.post
CallUploadPost(post, account) ==
    /\ up.pc \in {"idle", "returned"}
    /\ up.calls < MaxCalls
    /\ LET call == [NoUpload EXCEPT !.calls = up.calls + 1, !.exchanges = up.exchanges,
                                    !.post = post, !.account = account]
           invalid == CheckCredentials(account)
       IN up' = IF invalid # NoErr
                THEN Fails(call, "credentials", invalid, UploadCatch(TokenCatch(invalid)))
                ELSE [call EXCEPT !.pc = "token", !.tokenReqs = 1, !.exchanges = @ + 1]
    /\ UNCHANGED <<batchVars, uiVars, parseVars, dq, px, fl, la>>

\* the token exchange ends: the rest of getAccessToken, then uploadPost up to
\* its request to /api/submit
TokenResponds(answer) ==
    /\ up.pc = "token"
    /\ LET token == AccessToken(up.exchanges)
           invalid == ValidateUrl(up.post.url)
       IN up' = IF ~answer.ok
                THEN Fails(up, "token", answer.error, UploadCatch(TokenCatch(answer.error)))
                ELSE IF invalid # NoErr
                THEN Fails([up EXCEPT !.accessToken = token], "url", invalid,
                           UploadCatch(invalid))
                ELSE [up EXCEPT !.pc = "submit", !.accessToken = token,
                                !.payload = PostData(up.post), !.bearer = token,
                                !.submitReqs = 1]
    /\ UNCHANGED <<batchVars, uiVars, parseVars, dq, px, fl, la>>

\* the request to /api/submit ends: the rest of uploadPost
SubmitResponds(answer) ==
    /\ up.pc = "submit"
    /\ LET outcome == Normalize(answer.body, up.post)
       IN up' = IF ~answer.ok
                THEN Fails(up, "submit", answer.error, UploadCatch(answer.error))
                ELSE IF outcome.state = "thrown"
                THEN Fails([up EXCEPT !.body = answer.body], "response", outcome.error,
                           UploadCatch(outcome.error))
                ELSE [up EXCEPT !.pc = "returned", !.body = answer.body,
                                !.result = outcome]
    /\ UNCHANGED <<batchVars, uiVars, parseVars, dq, px, fl, la>>

\* ------------------------------------------------- server: getProxyAgents
\* Texts here are sequences of pieces: a piece is a word or the character "-";
\* <<>> stands for null, undefined or ''.
MaxAgentCalls == 3

\* String(n) for an integer of an account record
Digits(n) == <<ToString(n)>>

\* the fields of an account record that getProxyAgents reads; a port of 0 stands
\* for a port that is null
ProxyAccounts ==
    [id : {1, 2},
     proxy_type : { <<>>, <<"http">>, <<"socks5">> },
     proxy_host : { <<>>, <<"h", "-", "8">> },
     proxy_port : {0, 8, 9}]

NoAgents == [cache |-> [k \in {} |-> 0], made |-> 0, objs |-> 0, calls |-> <<>>]

\* !account.proxy_host || !account.proxy_port
NoProxy(account) == account.proxy_host = <<>> \/ account.proxy_port = 0

\* account.proxy_type || 'http'
TypeOrHttp(account) ==
    IF account.proxy_type = <<>> THEN <<"http">> ELSE account.proxy_type

\* the template string of the cache key
CacheKey(account) ==
    Digits(account.id) \o <<"-">> \o TypeOrHttp(account) \o <<"-">>
        \o account.proxy_host \o <<"-">> \o Digits(account.proxy_port)

\* a cache that is never hit
CacheHasNever(cache, key) == FALSE

\* agentCache.has(cacheKey)
CacheHas(cache, key) == key \in DOMAIN cache

\* the object returned for an account without a proxy; agent 0 is null
NullAgents(obj) == [obj |-> obj, httpAgent |-> 0, httpsAgent |-> 0]

\* the agents built for a key that is not cached: object obj holding the agents
\* made after the first `made` ones
NewAgents(account, made, obj) ==
    IF TypeOrHttp(account) = <<"socks5">>
    THEN [obj |-> obj, httpAgent |-> made + 1, httpsAgent |-> made + 1]
    ELSE [obj |-> obj, httpAgent |-> made + 1, httpsAgent |-> made + 2]

\* one call of getProxyAgents(account)
CallGetProxyAgents(account) ==
    /\ Len(px.calls) < MaxAgentCalls
    /\ LET key == CacheKey(account)
           built == NewAgents(account, px.made, px.objs + 1)
       IN px' =
            IF NoProxy(account)
            THEN [px EXCEPT !.objs = @ + 1,
                            !.calls = Append(@, [account |-> account,
                                                 agents |-> NullAgents(px.objs + 1)])]
            ELSE IF CacheHas(px.cache, key)
            THEN [px EXCEPT !.calls = Append(@, [account |-> account,
                                                 agents |-> px.cache[key]])]
            ELSE [px EXCEPT !.cache = (key :> built) @@ @,
                            !.made = IF built.httpAgent = built.httpsAgent
                                     THEN @ + 1 ELSE @ + 2,
                            !.objs = @ + 1,
                            !.calls = Append(@, [account |-> account, agents |-> built])]
    /\ UNCHANGED <<batchVars, uiVars, parseVars, dq, up, fl, la>>

\* --------------------------------------------- get-flairs.js: getSubredditFlairs
\* what r.oauthRequest gives back: a rejection with a message, or a value that
\* is null, an array of n flairs, an object with a choices array of n flairs,
\* an object with data.link_flair_templates of n flairs, or another object
FlairAnswer(kind, n, message) == [kind |-> kind, n |-> n, message |-> message]

FlairAnswers ==
    { FlairAnswer("error", 0, m) : m \in {"401", "403", "timeout"} }
        \cup { FlairAnswer("null", 0, "") , FlairAnswer("object", 0, "") }
        \cup { FlairAnswer(k, n, "") : k \in {"array", "choices", "templates"}, n \in {0, 2} }

\* the message of the TypeError of reading a property of null
NullReadMessage == "Cannot read properties of null"

\* the try block of a method ends in its catch block: the request was rejected,
\* or its value is null and reading response.choices / about.data throws
Throws(answer) == answer.kind \in {"error", "null"}

\* error.message of what the catch block receives
CaughtMessage(answer) ==
    IF answer.kind = "error" THEN answer.message ELSE NullReadMessage

\* flairTemplates.length after a method has read its response: methods 1 and 3
\* take an array or response.choices, method 2 about.data.link_flair_templates
FlairsRead(method, answer) ==
    IF method = 2
    THEN (IF answer.kind = "templates" THEN answer.n ELSE 0)
    ELSE (IF answer.kind \in {"array", "choices"} THEN answer.n ELSE 0)

\* a lookup that also goes on to the next method after an empty list
FallsBackOnEmpty(method, answer) == Throws(answer) \/ FlairsRead(method, answer) = 0

\* the next method is tried: the catch block of the method's try is entered
FallsBack(method, answer) == Throws(answer)

\* new Error(`Could not fetch flairs: ${error.message}`), error being the
\* binding of the outermost catch
CouldNotFetch(caught) == <<"Could not fetch flairs: ", caught[1]>>

NoLookup ==
    [pc |-> "idle", requests |-> <<>>, answers |-> <<>>, caught |-> <<>>,
     flairTemplates |-> 0, outcome |-> "", message |-> <<>>]

\* if (flairTemplates.length === 0) return; else the flairs are listed
FlairsSettled(l, n) ==
    [l EXCEPT !.pc = "done", !.flairTemplates = n,
              !.outcome = IF n = 0 THEN "none" ELSE "flairs"]

\* getSubredditFlairs up to the request of method 1
CallGetSubredditFlairs ==
    /\ fl.pc = "idle"
    /\ fl' = [NoLookup EXCEPT !.pc = "requesting", !.requests = <<1>>]
    /\ UNCHANGED <<batchVars, uiVars, parseVars, dq, up, px, la>>

\* the request under way ends: the rest of its try block, then the next request,
\* the listing, or the outer catch block (process.exit(1))
FlairRequestEnds(answer) ==
    /\ fl.pc = "requesting"
    /\ LET method == Len(fl.requests)
           l == [fl EXCEPT !.answers = Append(@, answer)]
           caught == Append(fl.caught, CaughtMessage(answer))
       IN fl' = IF ~FallsBack(method, answer)
                THEN FlairsSettled(l, FlairsRead(method, answer))
                ELSE IF method < 3
                THEN [l EXCEPT !.caught = caught, !.requests = Append(@, method + 1)]
                ELSE [l EXCEPT !.pc = "done", !.caught = caught, !.outcome = "exit",
                               !.message = CouldNotFetch(caught)]
    /\ UNCHANGED <<batchVars, uiVars, parseVars, dq, up, px, la>>

\* ------------------------------------------------------ browser: loadAccounts
MaxLoads == 2

maxRetries == 3

\* what the catch block of loadAccounts receives: message, code, status, and
\* whether the object has a response property
LoadError(message, code, status, response) ==
    [message |-> message, code |-> code, status |-> status, response |-> response]

\* the messages that include 'fetch' (among them 'Failed to fetch'), 'network',
\* and 'required', 'invalid' or 'missing'
FetchTexts == {"Failed to fetch", "NetworkError when attempting to fetch resource.",
               "could not fetch rows"}
NetworkTexts == {"A network error occurred"}
ValidationTexts == {"name is required"}

\* a rejected fetch (TypeError) in three browsers, the timeout of
\* AbortSignal.timeout, a response body that is not JSON, and the objects thrown
\* for a response that is not ok
LoadErrors ==
    { LoadError(m, "", 0, FALSE) :
          m \in {"Failed to fetch", "NetworkError when attempting to fetch resource.",
                 "Load failed", "A network error occurred", "signal timed out",
                 "Unexpected token < in JSON"} }
        \cup { LoadError(m, "", 500, TRUE) :
                  m \in {"Server error: 500", "Failed to get accounts",
                         "could not fetch rows", "name is required"} }

\* categorizeError(error), for an error that is not null
categorizeError(error) ==
    IF \/ error.message \in FetchTexts
       \/ error.message \in NetworkTexts
       \/ error.code = "NETWORK_ERROR"
    THEN "network"
    ELSE IF error.response \/ error.status # 0
    THEN "api"
    ELSE IF error.message \in ValidationTexts
    THEN "validation"
    ELSE "unknown"

\* a retry after any error
RetriesAnyError(errorType, retryCount) == retryCount < maxRetries

\* errorType === ErrorTypes.NETWORK && retryCount < maxRetries
Retries(errorType, retryCount) == errorType = "network" /\ retryCount < maxRetries

\* the delay of the timer that calls loadAccounts(retryCount + 1)
RetryWait(retryCount) == 2000 * (retryCount + 1)

NoLoad ==
    [pc |-> "idle", loads |-> 0, retryCount |-> 0, attempts |-> 0, errors |-> <<>>,
     waits |-> <<>>, errorLog |-> <<>>]

\* loadAccounts(0) up to its fetch: at DOMContentLoaded, and from the Retry
\* button of the error log entry of a failed load
CallLoadAccounts ==
    /\ la.pc \in {"idle", "failed"}
    /\ la.loads < MaxLoads
    /\ la' = [NoLoad EXCEPT !.pc = "fetching", !.loads = la.loads + 1, !.attempts = 1,
                            !.errorLog = la.errorLog]
    /\ UNCHANGED <<batchVars, uiVars, parseVars, dq, up, px, fl>>

\* the accounts arrive: the rest of the try block
AccountsLoaded ==
    /\ la.pc = "fetching"
    /\ la' = [la EXCEPT !.pc = "loaded"]
    /\ UNCHANGED <<batchVars, uiVars, parseVars, dq, up, px, fl>>

\* the try block throws: the catch block
LoadFails(error) ==
    /\ la.pc = "fetching"
    /\ LET l == [la EXCEPT !.errors = Append(@, error)]
       IN la' = IF Retries(categorizeError(error), la.retryCount)
                THEN [l EXCEPT !.pc = "waiting",
                               !.waits = Append(@, RetryWait(la.retryCount))]
                ELSE [l EXCEPT !.pc = "failed",
                               !.errorLog = Append(@, [load |-> la.loads,
                                                       type |-> categorizeError(error),
                                                       retryCount |-> la.retryCount])]
    /\ UNCHANGED <<batchVars, uiVars, parseVars, dq, up, px, fl>>

\* the timer fires: loadAccounts(retryCount + 1) up to its fetch
RetryTimerFires ==
    /\ la.pc = "waiting"
    /\ la' = [la EXCEPT !.pc = "fetching", !.retryCount = @ + 1, !.attempts = @ + 1]
    /\ UNCHANGED <<batchVars, uiVars, parseVars, dq, up, px, fl>>

\* ------------------------------------------------------------ specifications
\* a file of one block of lines per post: subreddit, title (if valid), blank
RECURSIVE FileOf(_)
FileOf(flags) ==
    IF flags = <<>> THEN <<>>
    ELSE (IF Head(flags) THEN << <<"a">>, <<"a">>, <<>> >> ELSE << <<"a">>, <<>> >>)
         \o FileOf(Tail(flags))

SampleFiles == UNION { { FileOf(f) : f \in [1..n -> BOOLEAN] } : n \in 0..MaxPosts }

InitIdle ==
    /\ now = 0
    /\ uploadProgress = [id \in {} |-> 0]
    /\ runs = [r \in RunIds |-> NoRun]
    /\ parsedPosts = <<>>
    /\ isPostingAll = FALSE
    /\ btnDisabled = FALSE
    /\ ui = NoLoop
    /\ parsed = FALSE
    /\ px = NoAgents
    /\ fl = NoLookup
    /\ la = NoLoad

\* The page and the server.  A file is uploaded and parsed; its posts are then
\* posted from the page with "Post All", or sent to POST /api/posts/all by up to
\* MaxRuns requests that may overlap.  The page's loop and the server's table
\* share no state, so a behaviour follows one of the two.
Init == InitIdle /\ file \in Files \cup SampleFiles /\ dq = NoCall /\ up = NoUpload

OnPage == parsed /\ runs[1].pc = "none"

OnServer == parsed /\ ui.nRuns = 0

Next ==
    \/ ParseUpload
    \/ \E hasAccount \in BOOLEAN, delays \in UiDelayArgs, confirmed \in BOOLEAN :
          OnPage /\ PostAllClick(hasAccount, delays, confirmed)
    \/ \E outcome \in Outcomes, rnd \in Randoms : OnPage /\ FetchSettles(outcome, rnd)
    \/ OnPage /\ TickElapsed
    \/ \E confirmed \in BOOLEAN : OnPage /\ CancelPostAll(confirmed)
    \/ \E r \in RunIds, isArray \in BOOLEAN, accountId \in RequestAccounts,
          delays \in DelayArgs :
          OnServer /\ PostAllRoute(r, parsedPosts, isArray, accountId, delays)
    \/ \E r \in RunIds, rnd \in Randoms : OnServer /\ UploadSucceeds(r, rnd)
    \/ \E r \in RunIds : OnServer /\ UploadFails(r)
    \/ \E r \in RunIds : OnServer /\ DelayElapsed(r)
    \/ OnServer /\ Tick

Spec == Init /\ [][Next]_vars

\* getRandomDelay on its own
InitDelay ==
    /\ InitIdle /\ file = <<>>
    /\ \E a \in DelayInputs, b \in DelayInputs :
          dq = [NoCall EXCEPT !.stage = "args", !.delayFrom = a, !.delayUpTo = b]
    /\ up = NoUpload

NextDelay == \E rnd \in Randoms : CallGetRandomDelay(rnd)

SpecDelay == InitDelay /\ [][NextDelay]_vars

\* uploadPost on its own: calls one after another, as the loop of uploadAllPosts
\* and the route POST /api/posts/single make them
InitUpload == InitIdle /\ file = <<>> /\ dq = NoCall /\ up = NoUpload

NextUpload ==
    \/ \E post \in UploadPosts, account \in Accounts : CallUploadPost(post, account)
    \/ \E answer \in TokenAnswers : TokenResponds(answer)
    \/ \E answer \in SubmitAnswers : SubmitResponds(answer)

SpecUpload == InitUpload /\ [][NextUpload]_vars

\* The batch runs of the server on their own, for the question whether they end.
\* A pending uploadPost resolves or rejects (axios requests carry a timeout of
\* 30 s) and a timer of setTimeout fires: weak fairness for the step that ends
\* the submission under way and for the step that ends the delay, per run.
InitBatch == InitIdle /\ file \in SampleFiles /\ dq = NoCall /\ up = NoUpload

Settles(r) == (\E rnd \in Randoms : UploadSucceeds(r, rnd)) \/ UploadFails(r)

NextBatch ==
    \/ ParseUpload
    \/ \E r \in RunIds, isArray \in BOOLEAN, accountId \in RequestAccounts,
          delays \in DelayArgs :
          OnServer /\ PostAllRoute(r, parsedPosts, isArray, accountId, delays)
    \/ \E r \in RunIds, rnd \in Randoms : OnServer /\ UploadSucceeds(r, rnd)
    \/ \E r \in RunIds : OnServer /\ UploadFails(r)
    \/ \E r \in RunIds : OnServer /\ DelayElapsed(r)
    \/ OnServer /\ Tick

SpecBatchFair ==
    /\ InitBatch
    /\ [][NextBatch]_vars
    /\ \A r \in RunIds : WF_vars(Settles(r)) /\ WF_vars(DelayElapsed(r))

\* getProxyAgents on its own: calls one after another (the function has no await)
NextAgents == \E account \in ProxyAccounts : CallGetProxyAgents(account)

SpecAgents == InitUpload /\ [][NextAgents]_vars

\* one run of the get-flairs.js script
NextFlairs ==
    \/ CallGetSubredditFlairs
    \/ \E answer \in FlairAnswers : FlairRequestEnds(answer)

SpecFlairs == InitUpload /\ [][NextFlairs]_vars

\* the page loading its accounts
NextAccounts ==
    \/ CallLoadAccounts
    \/ AccountsLoaded
    \/ \E error \in LoadErrors : LoadFails(error)
    \/ RetryTimerFires

SpecAccounts == InitUpload /\ [][NextAccounts]_vars

\* =================================================================== claims
\* the ids of the posts of a list whose validity flag is set, in the list's order
RECURSIVE ValidIds(_)
ValidIds(posts) ==
    IF posts = <<>> THEN <<>>
    ELSE (IF Truthy(Head(posts).isValid) THEN <<Head(posts).id>> ELSE <<>>)
         \o ValidIds(Tail(posts))

Active(r) == runs[r].pc \in {"uploading", "delaying", "done"}

Rec(r) == uploadProgress[runs[r].uploadId]

IsPrefix(a, b) == Len(a) <= Len(b) /\ a = SubSeq(b, 1, Len(a))

\* C1: in every batch run of uploadAllPosts the completed and the failed list of
\* the run's record hold together at most total entries, exactly total entries
\* once the run has returned, and total is at most the number of valid input posts.
C1_Claim ==
    \A r \in RunIds :
        Active(r) =>
            /\ Len(Rec(r).completed) + Len(Rec(r).failed) <= Rec(r).total
            /\ runs[r].pc = "done" =>
                  /\ Len(Rec(r).completed) + Len(Rec(r).failed) = Rec(r).total
                  /\ Rec(r).total <= Len(ValidIds(runs[r].input))

\* C2: in a batch run the submissions start in the order the valid posts have in
\* the input, and at most one submission of the run is in flight at any moment;
\* on the server (uploadAllPosts) and on the page (postAll).
C2_Sequential ==
    /\ \A r \in RunIds :
          Active(r) =>
              /\ runs[r].inflight <= 1
              /\ IsPrefix([k \in 1..Len(runs[r].started) |-> runs[r].started[k].post],
                          ValidIds(runs[r].input))
    /\ ui.inflight <= 1
    /\ IsPrefix(ui.started, ValidIds(parsedPosts))

C2_Witness ==
    /\ runs[1].pc = "done"
    /\ Len(runs[1].started) >= 2
    /\ Len(runs[1].input) > Len(runs[1].started)

\* C3: a failed submission does not end the batch: the step that fails appends the
\* post to the failed list of the run's record and goes on with the next post, no
\* run ends other than by returning, and a run that has returned has attempted
\* every valid post of its input.
C3_FailureStep ==
    \A r \in RunIds :
        (/\ runs[r].pc = "uploading"
         /\ Len(runs'[r].outcomes) > Len(runs[r].outcomes)
         /\ runs'[r].outcomes[Len(runs'[r].outcomes)] = "error")
        => /\ uploadProgress'[runs[r].uploadId].failed =
                 Append(uploadProgress[runs[r].uploadId].failed,
                        [post |-> runs[r].validPosts[runs[r].i + 1], error |-> "error"])
           /\ runs'[r].pc \in {"uploading", "done"}
           /\ runs'[r].pc = "uploading" =>
                 runs'[r].started[Len(runs'[r].started)].post
                     = ValidIds(runs[r].input)[Len(runs[r].started) + 1]

C3_AllAttempted ==
    \A r \in RunIds :
        /\ runs[r].pc \in {"none", "rejected", "uploading", "delaying", "done"}
        /\ runs[r].pc = "done" => Len(runs[r].started) = Len(ValidIds(runs[r].input))

C3_FailureContinues == [][C3_FailureStep]_vars /\ []C3_AllAttempted

C3_Witness ==
    /\ runs[1].pc = "done"
    /\ Len(runs[1].outcomes) >= 2
    /\ runs[1].outcomes[1] = "error"
    /\ runs[1].outcomes[2] = "ok"

\* the posts of a list that carry the id
PostsWithId(posts, id) == { k \in 1..Len(posts) : posts[k].id = id }

CancelRequested == ui.pc # "idle" /\ ~isPostingAll

\* C5: once cancelPostAll has cleared the flag of a running postAll loop, the loop
\* starts no further submission, whether it was in a fetch or in a delay wait, and
\* what it has submitted and tallied stays.
C5_NoSubmitAfterCancel ==
    [][CancelRequested =>
          /\ ui'.started = ui.started
          /\ ui'.completed >= ui.completed
          /\ ui'.failed >= ui.failed]_vars

C5_Witness ==
    /\ ui.nRuns > 0
    /\ ui.pc = "idle"
    /\ Len(ui.started) = 1
    /\ ui.total >= 2

RECURSIVE CountOf(_, _)
CountOf(seq, x) ==
    IF seq = <<>> THEN 0
    ELSE (IF Head(seq) = x THEN 1 ELSE 0) + CountOf(Tail(seq), x)

\* C6: when the flag is cleared during a delay wait, the tick under way is the last
\* one and the loop is left with no further submission; the step that clears the
\* flag changes no tally, and a post is tallied by its own outcome whether or not
\* the flag was cleared while it was in flight.
C6_WaitStep ==
    (ui.pc = "ticking" /\ ~isPostingAll /\ ui' # ui)
        => /\ ui'.pc = "idle"
           /\ ui'.started = ui.started
           /\ ui'.completed = ui.completed
           /\ ui'.failed = ui.failed

C6_CancelStep ==
    (isPostingAll /\ ~isPostingAll' /\ ui'.pc # "idle") => ui' = ui

C6_Tallies ==
    /\ ui.completed = CountOf(ui.outcomes, "ok")
    /\ ui.failed > 0 => CountOf(ui.outcomes, "ok") < Len(ui.outcomes)
    /\ Len(ui.outcomes) = Len(ui.started) - ui.inflight

C6_CancelDuringWait == [][C6_WaitStep /\ C6_CancelStep]_vars /\ []C6_Tallies

C6_Witness ==
    /\ ui.pc = "ticking"
    /\ ~isPostingAll
    /\ ui.countdown >= 2
    /\ ui.completed >= 1

\* C7: in a batch run of uploadAllPosts every submission but the first starts after
\* a delay has been waited, whether the attempt before it succeeded or failed.
C7_Claim ==
    \A r \in RunIds : \A k \in 2..Len(runs[r].started) : runs[r].started[k].waited

IsInteger(v) == ~v.nan /\ v.h % 2 = 0

\* C8: for integer arguments getRandomDelay returns d with delayFrom <= d <= delayUpTo
\* when delayFrom <= delayUpTo, and delayFrom when delayFrom >= delayUpTo.
C8_DelayInRange ==
    (dq.stage = "returned" /\ IsInteger(dq.delayFrom) /\ IsInteger(dq.delayUpTo))
        => LET from == dq.delayFrom.h \div 2
               upTo == dq.delayUpTo.h \div 2
           IN /\ from <= upTo => (from <= dq.result /\ dq.result <= upTo)
              /\ from >= upTo => dq.result = from

C8_Witness ==
    /\ dq.stage = "returned"
    /\ dq.delayFrom = JsInt(1)
    /\ dq.delayUpTo = JsInt(3)
    /\ dq.result = 3

\* C9: after every attempt of a batch run, successful or not, the progress callback
\* has been invoked exactly once with the attempt's index, the total and the post.
C9_Claim ==
    \A r \in RunIds :
        Active(r) =>
            runs[r].cb = [k \in 1..Len(runs[r].outcomes) |->
                             [current |-> k, total |-> Len(runs[r].validPosts),
                              post |-> runs[r].validPosts[k].id]]

\* C10: when the posts hold none with the validity flag set, no run is created: the
\* progress table gets no entry and nothing is submitted, by the route
\* POST /api/posts/all and by postAll.
C10_NoValidNoRun ==
    (parsed /\ ValidIds(parsedPosts) = <<>>)
        => /\ DOMAIN uploadProgress = {}
           /\ \A r \in RunIds : runs[r].pc \in {"none", "rejected"} /\ runs[r].started = <<>>
           /\ ui.nRuns = 0 /\ ui.started = <<>>

C10_Witness ==
    /\ runs[1].pc = "rejected"
    /\ Len(runs[1].input) >= 1
    /\ ValidIds(runs[1].input) = <<>>

\* ---- uploadPost
\* post.url is present and is no absolute URL with scheme and host
BadUrl(url) ==
    url.kind = "str" /\ (url.text = "" \/ ~url.parses \/ url.protocol = "" \/ url.hostname = "")

InvalidUrlMessage == "Invalid URL: %s. Please provide a valid URL"

\* C11: uploadPost does not reject a well-formed absolute URL, and for a url that
\* is present but not an absolute URL with scheme and host, or empty, it sends no
\* request at all (no token exchange, no submit) and, the credentials being in
\* order, ends with the invalid-URL error.
C11_Claim ==
    /\ (up.pc = "returned" /\ ~BadUrl(up.post.url)) => up.failedAt # "url"
    /\ (up.pc # "idle" /\ BadUrl(up.post.url)) =>
          /\ up.tokenReqs = 0
          /\ up.submitReqs = 0
          /\ (up.pc = "returned" /\ CheckCredentials(up.account) = NoErr) =>
                /\ up.result.state = "thrown"
                /\ up.result.error.message.tpl = InvalidUrlMessage

\* a response body has arrived for the call and the call has ended
Received == up.pc = "returned" /\ up.body.kind # "none"

\* the body has neither the structured shape (a json object) nor the legacy
\* shape (a jquery array with a boolean success)
NeitherShape(body) ==
    /\ body.json # "object"
    /\ ~(body.jquery = "array" /\ body.success \in {"true", "false"})

UnexpectedFormatMessage ==
    "Unexpected response format from Reddit API. Check console for details."

NoDataMessage ==
    "Failed to submit post - no data returned. The subreddit may have restrictions (karma, account age, verification)."

RateLimitMessage == "Rate limit: You can post again in %s seconds."

C13_Claim ==
    (up.pc = "returned" /\ up.failedAt = "response" /\ up.caught.redditResponse # NoBody)
        => up.result.error.redditResponse = up.body

\* C14: for a structured response uploadPost fails with the message made from
\* the first error pair when errors is not empty; otherwise returns success with
\* the provider's id, name and https://reddit.com + permalink when data is
\* there; otherwise fails with the rate-limit message when the hint is there and
\* with the no-data message when it is not.
C14_Claim ==
    (Received /\ up.body.json = "object") =>
        IF up.body.errors # <<>>
        THEN /\ up.result.state = "thrown"
             /\ up.result.error.message = DetailedMessage(up.body.errors[1], up.post)
        ELSE IF up.body.data.present
        THEN /\ up.result.success
             /\ up.result.postId = up.body.data.id
             /\ up.result.name = <<up.body.data.name>>
             /\ up.result.url = <<"https://reddit.com", up.body.data.permalink>>
        ELSE /\ up.result.state = "thrown"
             /\ up.result.error.message =
                   (IF up.body.ratelimit > 0
                    THEN Msg(RateLimitMessage, "", Ceil(up.body.ratelimit))
                    ELSE Msg(NoDataMessage, "", 0))

\* a legacy response with success = true
LegacyOk(body) == body.json = "absent" /\ body.jquery = "array" /\ body.success = "true"

\* the instructions of a jquery array that hold a URL with a /comments/<id>/ segment
WithCommentsId(items) ==
    { k \in 1..Len(items) :
        items[k].op = "call" /\ items[k].args # <<>> /\ items[k].args[1].id # "" }

RedditComments(items) ==
    { k \in 1..Len(items) :
        /\ items[k].len >= 4 /\ items[k].op = "call" /\ items[k].args # <<>>
        /\ items[k].args[1].redditCom /\ items[k].args[1].comments }

C16_Claim ==
    (/\ up.pc = "returned"
     /\ up.failedAt \in {"token", "submit"}
     /\ up.caught.code \in {"ECONNREFUSED", "ETIMEDOUT"}
     /\ up.account.proxy)
        => up.result.error.message.tpl
              = "Proxy connection failed: %s. Please check your proxy settings (%s)"

\* the account record fails the checks of getAccessToken
NoCredentials(account) ==
    \/ ~account.found
    \/ account.client_id = ""
    \/ account.client_secret = ""
    \/ account.refresh_token = ""
    \/ account.refresh_token = "YOUR_REFRESH_TOKEN"

\* C17: a call of uploadPost for an account that is not in the store, or whose
\* record lacks client id, secret or refresh token or holds the placeholder
\* refresh token, sends no request and ends with the account-not-found error or
\* the invalid-credentials error.
C17_FailsBeforeRequest ==
    (up.pc # "idle" /\ NoCredentials(up.account)) =>
        /\ up.pc = "returned"
        /\ up.tokenReqs = 0
        /\ up.submitReqs = 0
        /\ up.result.state = "thrown"
        /\ up.result.error.message.tpl =
              (IF ~up.account.found THEN "Account not found"
               ELSE IF up.account.client_id = "" \/ up.account.client_secret = ""
               THEN "Missing client_id or client_secret in account configuration"
               ELSE "Invalid or missing refresh_token")

C17_Witness ==
    /\ up.pc = "returned"
    /\ up.calls = 2
    /\ up.exchanges = 1
    /\ up.account.refresh_token = "YOUR_REFRESH_TOKEN"

C19_AtMostOnce ==
    /\ \A r \in RunIds :
          /\ Len(runs[r].started) <= Len(runs[r].validPosts)
          /\ \A j, k \in 1..Len(runs[r].started) :
                j # k => runs[r].started[j].post # runs[r].started[k].post
    /\ Len(ui.started) <= Len(ui.validPosts)
    /\ \A j, k \in 1..Len(ui.started) : j # k => ui.started[j] # ui.started[k]

C19_Witness ==
    /\ runs[1].pc = "done"
    /\ runs[1].outcomes = <<"error", "error", "ok">>
    /\ Len(runs[1].started) = 3

\* C20: the form sent to /api/submit has kind link exactly when the post has a
\* url, and then holds that url, and kind self with no url otherwise; it holds
\* flair_id exactly when the post has a flair id, flair_text exactly when the post
\* has a flair text and no flair id, and so never both.
C20_Payload ==
    up.submitReqs = 1 =>
        /\ up.payload.sr = up.post.subreddit
        /\ up.payload.title = up.post.title
        /\ up.payload.kind = (IF up.post.url.kind = "str" /\ up.post.url.text # ""
                              THEN "link" ELSE "self")
        /\ up.payload.kind = "link" =>
              (up.payload.hasUrl /\ up.payload.url = up.post.url.text)
        /\ up.payload.kind = "self" => ~up.payload.hasUrl
        /\ up.payload.hasFlairId <=> up.post.flair_id # ""
        /\ up.payload.hasFlairId => up.payload.flair_id = up.post.flair_id
        /\ up.payload.hasFlairText <=> (up.post.flair_text # "" /\ up.post.flair_id = "")
        /\ up.payload.hasFlairText => up.payload.flair_text = up.post.flair_text
        /\ ~(up.payload.hasFlairId /\ up.payload.hasFlairText)

C20_Witness ==
    /\ up.submitReqs = 1
    /\ up.payload.kind = "link"
    /\ up.post.flair_id = "fid"
    /\ up.post.flair_text = "ftext"
    /\ up.payload.hasFlairId

\* the same account id, proxy type (none counting as http), host and port
SameProxy(a, b) ==
    /\ a.id = b.id
    /\ TypeOrHttp(a) = TypeOrHttp(b)
    /\ a.proxy_host = b.proxy_host
    /\ a.proxy_port = b.proxy_port

\* the same account id, proxy type and host, another port
OtherPort(a, b) ==
    /\ a.id = b.id
    /\ TypeOrHttp(a) = TypeOrHttp(b)
    /\ a.proxy_host = b.proxy_host
    /\ a.proxy_port # b.proxy_port

\* the agents of a returned pair
AgentsOf(pair) == {pair.httpAgent, pair.httpsAgent}

\* C21: after any sequence of getProxyAgents calls for accounts with a proxy
\* (host and port set), two calls with the same account id, proxy type, host and
\* port return the same pair object holding the same agents, two calls that
\* differ in the port only return different pair objects with no agent in
\* common, and no step replaces or removes an entry of the cache.
C21_Pairs ==
    \A i, j \in 1..Len(px.calls) :
        LET a == px.calls[i]
            b == px.calls[j]
        IN (~NoProxy(a.account) /\ ~NoProxy(b.account)) =>
              /\ SameProxy(a.account, b.account) => a.agents = b.agents
              /\ OtherPort(a.account, b.account) =>
                    /\ a.agents.obj # b.agents.obj
                    /\ AgentsOf(a.agents) \cap AgentsOf(b.agents) = {}

C21_Kept ==
    \A k \in DOMAIN px.cache : k \in DOMAIN px'.cache /\ px'.cache[k] = px.cache[k]

C21_CachedForGood == []C21_Pairs /\ [][C21_Kept]_vars

C21_Witness ==
    /\ Len(px.calls) = 3
    /\ ~NoProxy(px.calls[1].account)
    /\ px.calls[3].account = px.calls[1].account
    /\ px.calls[3].agents = px.calls[1].agents
    /\ OtherPort(px.calls[1].account, px.calls[2].account)
    /\ ~NoProxy(px.calls[2].account)
    /\ px.calls[2].agents.obj # px.calls[1].agents.obj

\* the number of flairs request k of the lookup delivered; 0 when it raised an error
Delivered(k) ==
    IF Throws(fl.answers[k]) THEN 0 ELSE FlairsRead(k, fl.answers[k])

\* the requests made so far are the methods 1, 2, 3 in this order
InOrder ==
    /\ Len(fl.requests) <= 3
    /\ \A k \in 1..Len(fl.requests) : fl.requests[k] = k
    /\ Len(fl.answers) <= Len(fl.requests)

C23_Claim ==
    fl.pc = "done" =>
        /\ (Len(fl.answers) = 3 /\ \A k \in 1..3 : fl.answers[k].kind = "error") =>
              /\ fl.outcome = "exit"
              /\ fl.message = <<"Could not fetch flairs: ", fl.answers[3].message>>
        /\ ( /\ \E k \in 1..Len(fl.answers) : fl.answers[k].kind # "error"
             /\ \A k \in 1..Len(fl.answers) : Delivered(k) = 0 ) =>
              fl.outcome = "none"

\* C24: at no moment are two submissions for the same account in flight, whatever
\* the interleaving of the requests to the server.
C24_Claim ==
    \A r, q \in RunIds :
        (r # q /\ runs[r].accountId # 0 /\ runs[r].accountId = runs[q].accountId)
            => runs[r].inflight + runs[q].inflight <= 1

\* C25: any two runs of uploadAllPosts have different run identifiers, and no
\* step removes a progress record, replaces it or takes entries out of it.
C25_DistinctIds ==
    \A r, q \in RunIds :
        (r # q /\ Active(r) /\ Active(q)) => runs[r].uploadId # runs[q].uploadId

C25_RecordKept ==
    \A id \in DOMAIN uploadProgress :
        /\ id \in DOMAIN uploadProgress'
        /\ uploadProgress'[id].total = uploadProgress[id].total
        /\ IsPrefix(uploadProgress[id].completed, uploadProgress'[id].completed)
        /\ IsPrefix(uploadProgress[id].failed, uploadProgress'[id].failed)

C25_Claim == []C25_DistinctIds /\ [][C25_RecordKept]_vars

\* C26 as stated: in every state the current field of a progress record equals
\* the number of entries of its completed list.
C26_Claim ==
    \A id \in DOMAIN uploadProgress :
        uploadProgress[id].current = Len(uploadProgress[id].completed)

\* C26, amended: the step in which a submission of a run succeeds sets current
\* to the one-based position of that post among the run's valid posts and
\* appends the post to completed; the step in which a submission fails leaves
\* current and completed as they are.
C26_SettleStep ==
    \A r \in RunIds :
        (runs[r].pc = "uploading" /\ Len(runs'[r].outcomes) > Len(runs[r].outcomes)) =>
            LET before == uploadProgress[runs[r].uploadId]
                after == uploadProgress'[runs[r].uploadId]
                post == runs[r].validPosts[runs[r].i + 1]
            IN IF runs'[r].outcomes[Len(runs'[r].outcomes)] = "ok"
               THEN /\ after.current = runs[r].i + 1
                    /\ after.completed =
                          Append(before.completed, [post |-> post, result |-> "ok"])
               ELSE /\ after.current = before.current
                    /\ after.completed = before.completed

C26_CurrentIsPosition == [][C26_SettleStep]_vars

C26_Witness ==
    /\ runs[1].outcomes = <<"error", "ok">>
    /\ runs[2].pc = "none"
    /\ Rec(1).current = 2
    /\ Len(Rec(1).completed) = 1
    /\ Len(Rec(1).failed) = 1

\* C27: in the loop of postAll every post whose request has ended has added
\* exactly one to exactly one of completed and failed, whatever the outcome, so
\* completed + failed is the number of posts attempted and at most total.
C27_Claim ==
    /\ ui.completed + ui.failed = Len(ui.outcomes)
    /\ ui.completed + ui.failed <= ui.total

\* a loop of postAll has started and has not yet run its finally block
LoopActive == ui.pc # "idle"

\* C28: at most one loop of postAll is active at any time.  While a loop is
\* active the Post All button is disabled, so no step starts another loop, also
\* after cancelPostAll has cleared the flag; and a loop whose flag was cleared
\* starts no further submission and does not see the flag set again.
C28_Guarded == LoopActive => btnDisabled

C28_Step ==
    LoopActive =>
        /\ ui'.nRuns = ui.nRuns
        /\ ~isPostingAll => (~isPostingAll' /\ ui'.started = ui.started)

ReturnedAfterTotal(r) ==
    /\ runs[r].pc = "done"
    /\ runs[r].uploadId \in DOMAIN uploadProgress
    /\ Len(runs[r].started) = Len(runs[r].validPosts)
    /\ Len(runs[r].outcomes) = Len(runs[r].validPosts)
    /\ runs[r].inflight = 0

\* C29: when every submission resolves or rejects and every delay timer fires,
\* every batch run of uploadAllPosts that has started returns its progress
\* record, and it has then made exactly as many attempts as it has valid posts,
\* whatever the outcomes.
C29_Terminates ==
    /\ \A r \in RunIds : (runs[r].pc = "uploading") ~> ReturnedAfterTotal(r)
    /\ [](\A r \in RunIds : runs[r].pc = "done" => ReturnedAfterTotal(r))

C29_Witness ==
    /\ ReturnedAfterTotal(1)
    /\ Len(runs[1].validPosts) = MaxPosts
    /\ \E j, k \in 1..MaxPosts : runs[1].outcomes[j] = "ok" /\ runs[1].outcomes[k] = "error"

\* the entries the error log holds for the load under way
LogEntries == { k \in 1..Len(la.errorLog) : la.errorLog[k].load = la.loads }

\* C30: loadAccounts schedules a retry only after an error that categorizeError
\* classes as a network error, at most 3 times, so it makes at most 4 attempts;
\* every retry waits longer than the one before; once an attempt fails with
\* another kind of error, or the fourth attempt fails, nothing more is scheduled
\* and the error log has exactly one entry for the load, and none before that.
C30_Retries ==
    /\ la.retryCount <= 3
    /\ la.attempts <= 4
    /\ la.pc # "idle" => la.attempts = la.retryCount + 1
    /\ Len(la.waits) = la.retryCount + (IF la.pc = "waiting" THEN 1 ELSE 0)
    /\ \A k \in 1..Len(la.waits) : categorizeError(la.errors[k]) = "network"
    /\ \A k \in 1..(Len(la.waits) - 1) : la.waits[k] < la.waits[k + 1]
    /\ Cardinality(LogEntries) = (IF la.pc = "failed" THEN 1 ELSE 0)
    /\ la.pc = "failed" =>
          /\ Len(la.errors) = la.attempts
          /\ Len(la.waits) = la.attempts - 1
          /\ \/ categorizeError(la.errors[la.attempts]) # "network"
             \/ la.attempts = 4

C30_Witness ==
    /\ la.pc = "failed"
    /\ la.attempts = 4
    /\ la.waits = <<2000, 4000, 6000>>
    /\ categorizeError(la.errors[4]) = "network"
    /\ Cardinality(LogEntries) = 1

====
